---- MODULE Spec2Model ----
(***************************************************************************)
(* Model of the SEO audit engine (utils/seoAudit: calculateSEOScore).      *)
(* Strings that the code inspects character by character (title, short     *)
(* description, body, keywords) are sequences of one-character strings;    *)
(* issue ids, severities and messages are TLA+ strings.                    *)
(***************************************************************************)
EXTENDS Integers, Sequences, FiniteSets, TLC

VARIABLES
  blog,      \* the document handed to calculateSEOScore
  results,   \* the results returned so far, in call order
  docs,      \* the document objects callers hold, by reference
  calls,     \* per caller: where its call stands and the document it passed
  env,       \* the local bindings of the activations of calculateSEOScore
  arrays,    \* the issue arrays allocated so far, by reference
  returned,  \* per caller: the result its call returned
  image,     \* processImage: the decoded image (img)
  maxWidth,  \* processImage: the width limit passed or defaulted
  promise,   \* processImage: the state of the returned promise
  blogs,       \* BlogList: the loaded posts
  isLoading,   \* BlogList: the first load has not finished
  searchTerm,  \* BlogList: the text of the search box
  currentPage, \* BlogList: the page shown
  seoAudit,      \* BlogEditor: the audit displayed
  rendered,      \* BlogEditor: the blog of the last render whose effects ran
  timer,         \* BlogEditor: the autosave timeout is armed
  localStorage,  \* the browser's localStorage
  publish,       \* BlogEditor: where handlePublish stands, and its payload
  request,       \* the body of the request storeBlog posted last
  api,           \* which of the two definitions of the api module is built
  mounted,       \* App: the editor view is mounted, exiting or unmounted
  edits          \* the number of changes made to the blog so far

callVars == <<docs, calls, env, arrays, returned>>

imageVars == <<image, maxWidth, promise>>

\* the variables of the machines other than the audit and its callers
listVars == <<blogs, isLoading, searchTerm, currentPage>>

editorVars ==
  <<seoAudit, rendered, timer, localStorage, publish, request, api, mounted, edits>>

otherVars == <<imageVars, listVars, editorVars>>

vars ==
  <<blog, results, docs, calls, env, arrays, returned, image, maxWidth, promise,
    blogs, isLoading, searchTerm, currentPage,
    seoAudit, rendered, timer, localStorage, publish, request, api, mounted, edits>>

(***************************************************************************)
(* Bounds of the explored inputs.                                          *)
(***************************************************************************)
MaxTitleLen == 72
MaxDescLen == 162
MaxWords == 301
MaxImgs == 40
MaxFrags == 3
MaxKeywords == 6
MaxCallers == 2
MaxManyImgs == 201
MaxImgDim == 12
MaxBlogs == 6
MaxMockDeletes == 2
MaxEdits == 2

(***************************************************************************)
(* JavaScript string and array primitives used by calculateSEOScore.       *)
(***************************************************************************)
Min(S) == CHOOSE x \in S : \A y \in S : x <= y

\* the members of the regex class \s that occur in the explored inputs
IsSpace(c) == c \in {" ", "\n", "\t"}

UpperCase == <<"A","B","C","D","E","F","G","H","I","J","K","L","M",
               "N","O","P","Q","R","S","T","U","V","W","X","Y","Z">>
LowerCase == <<"a","b","c","d","e","f","g","h","i","j","k","l","m",
               "n","o","p","q","r","s","t","u","v","w","x","y","z">>

LowerChar(c) ==
  IF \E i \in 1..26 : UpperCase[i] = c
  THEN LowerCase[CHOOSE i \in 1..26 : UpperCase[i] = c]
  ELSE c

\* String.prototype.toLowerCase
toLowerCase(s) == [i \in 1..Len(s) |-> LowerChar(s[i])]

\* String.prototype.includes
includes(s, sub) ==
  \E i \in 0..(Len(s) - Len(sub)) : \A j \in 1..Len(sub) : s[i + j] = sub[j]

\* position of the first '>' at or after from, 0 when there is none
FirstClose(s, from) ==
  IF \E j \in from..Len(s) : s[j] = ">"
  THEN CHOOSE j \in from..Len(s) :
         s[j] = ">" /\ \A k \in from..(j - 1) : s[k] # ">"
  ELSE 0

\* the regex /<img[^>]+>/ matches at position i
ImgAt(s, i) ==
  /\ i + 4 <= Len(s)
  /\ s[i] = "<" /\ s[i+1] = "i" /\ s[i+2] = "m" /\ s[i+3] = "g"
  /\ s[i+4] # ">"
  /\ \E j \in (i + 5)..Len(s) : s[j] = ">"

\* body.match(/<img[^>]+>/g) || [] : the non-overlapping matches, left to right.
\* A match begins at each position where the regex matches and that no earlier
\* match covers; a later match never ends before an earlier one, so a position
\* is covered iff the match at the nearest matching position before it
\* reaches it.
matchImg(s) ==
  LET cand == SelectSeq([i \in 1..Len(s) |-> i], LAMBDA i : ImgAt(s, i))
      n == Len(cand)
      end == SubSeq([p \in 1..n |-> FirstClose(s, cand[p] + 5)], 1, n)
      IsStart(p) == p = 1 \/ end[p - 1] < cand[p]
      starts == SelectSeq([p \in 1..n |-> p], IsStart)
      matches == [q \in 1..Len(starts) |-> SubSeq(s, cand[starts[q]], end[starts[q]])]
  IN  IF n = 0 THEN <<>> ELSE SubSeq(matches, 1, Len(starts))

\* body.replace(/<[^>]*>/g, ' ') : every tag span becomes one space
TagAt(s, i) == s[i] = "<" /\ \E j \in (i + 1)..Len(s) : s[j] = ">"

replaceTags_DropsTags(s) ==
  LET RECURSIVE drop(_)
      drop(from) ==
        IF \E i \in from..Len(s) : TagAt(s, i)
        THEN LET i == CHOOSE i \in from..Len(s) :
                        TagAt(s, i) /\ \A k \in from..(i - 1) : ~TagAt(s, k)
             IN  SubSeq(s, from, i - 1) \o drop(FirstClose(s, i + 1) + 1)
        ELSE SubSeq(s, from, Len(s))
  IN  drop(1)

\* the tag spans are found as the matches of matchImg are; the characters
\* outside them stay and each span leaves one space
replaceTags(s) ==
  LET idx == [i \in 1..Len(s) |-> i]
      cand == SelectSeq(idx, LAMBDA i : TagAt(s, i))
      n == Len(cand)
      end == SubSeq([p \in 1..n |-> FirstClose(s, cand[p] + 1)], 1, n)
      IsStart(p) == p = 1 \/ end[p - 1] < cand[p]
      starts == SelectSeq([p \in 1..n |-> p], IsStart)
      begins == {cand[starts[q]] : q \in 1..Len(starts)}
      inside == UNION {(cand[starts[q]] + 1)..end[starts[q]] : q \in 1..Len(starts)}
      kept == SelectSeq(idx, LAMBDA i : i \notin inside)
      replaced == [q \in 1..Len(kept) |-> IF kept[q] \in begins THEN " " ELSE s[kept[q]]]
  IN  IF n = 0 THEN s ELSE SubSeq(replaced, 1, Len(kept))

\* textContent.split(/\s+/) : the pieces between maximal whitespace runs,
\* empty leading and trailing pieces included
split(t) ==
  LET n == Len(t)
      idx == [i \in 1..n |-> i]
      RunStart(i) == IsSpace(t[i]) /\ (i = 1 \/ ~IsSpace(t[i-1]))
      RunEnd(i) == IsSpace(t[i]) /\ (i = n \/ ~IsSpace(t[i+1]))
      starts == SelectSeq(idx, RunStart)
      ends == SelectSeq(idx, RunEnd)
      k == Len(starts)
  IN  [p \in 1..(k + 1) |->
         SubSeq(t, IF p = 1 THEN 1 ELSE ends[p-1] + 1,
                   IF p = k + 1 THEN n ELSE starts[p] - 1)]

NonEmpty(w) == Len(w) > 0

\* s.split(',') : the pieces between the commas, empty pieces included
splitComma(s) ==
  LET n == Len(s)
      IsComma(i) == s[i] = ","
      cuts == <<0>> \o SelectSeq([i \in 1..n |-> i], IsComma) \o <<n + 1>>
  IN  [p \in 1..(Len(cuts) - 1) |-> SubSeq(s, cuts[p] + 1, cuts[p + 1] - 1)]

\* s.trim()
trim(s) ==
  IF \A i \in 1..Len(s) : IsSpace(s[i]) THEN <<>>
  ELSE LET a == CHOOSE i \in 1..Len(s) :
                  ~IsSpace(s[i]) /\ \A k \in 1..(i - 1) : IsSpace(s[k])
           b == CHOOSE i \in 1..Len(s) :
                  ~IsSpace(s[i]) /\ \A k \in (i + 1)..Len(s) : IsSpace(s[k])
       IN  SubSeq(s, a, b)

\* the keyword list the Keywords input of the editor stores for its text
keywordsFromInput(value) ==
  LET pieces == splitComma(value)
  IN  [i \in 1..Len(pieces) |-> trim(pieces[i])]

\* `${n}` for a non-negative integer n
Digits == <<"0","1","2","3","4","5","6","7","8","9">>
RECURSIVE numberToString(_)
numberToString(n) ==
  IF n < 10 THEN Digits[n + 1]
  ELSE numberToString(n \div 10) \o Digits[(n % 10) + 1]

\* `${n}` as a sequence of characters
RECURSIVE numberToChars(_)
numberToChars(n) ==
  IF n < 10 THEN <<Digits[n + 1]>>
  ELSE numberToChars(n \div 10) \o <<Digits[(n % 10) + 1]>>

\* a character sequence as a string
RECURSIVE charsToString(_)
charsToString(s) == IF s = <<>> THEN "" ELSE Head(s) \o charsToString(Tail(s))

\* Array.prototype.join
RECURSIVE join(_, _)
join(list, sep) ==
  IF list = <<>> THEN ""
  ELSE IF Len(list) = 1 THEN charsToString(list[1])
  ELSE charsToString(list[1]) \o sep \o join(Tail(list), sep)

Max(a, b) == IF a >= b THEN a ELSE b

(***************************************************************************)
(* IEEE-754 binary64 arithmetic, as far as (a / b) * 100 and Math.round    *)
(* use it.  A positive double is [m |-> its 53 significand bits, most      *)
(* significant first, e |-> the exponent of the last bit]: the value is    *)
(* m * 2^e.  Zero is the record with the empty significand.                *)
(***************************************************************************)
SignificandBits == 53

FloatZero == [m |-> <<>>, e |-> 0]

RECURSIVE BitsToNat(_)
BitsToNat(bits) ==
  IF bits = <<>> THEN 0
  ELSE 2 * BitsToNat(SubSeq(bits, 1, Len(bits) - 1)) + bits[Len(bits)]

RECURSIVE NatToBits(_)
NatToBits(n) == IF n = 0 THEN <<>> ELSE NatToBits(n \div 2) \o <<n % 2>>

StripLeadingZeros(bits) ==
  LET S == {i \in 1..Len(bits) : bits[i] = 1}
  IN  IF S = {} THEN <<>> ELSE SubSeq(bits, Min(S), Len(bits))

\* bits * k + c, exactly, for small naturals k and c (k, c < 256)
MulAddSmall(bits, k, c) ==
  LET n == Len(bits)
      w == n + 9
      xb(i) == IF i < n THEN bits[n - i] ELSE 0
      carry[i \in 0..w] ==
        IF i = 0 THEN c ELSE (k * xb(i - 1) + carry[i - 1]) \div 2
      out(i) == (k * xb(i) + carry[i]) % 2
  IN  StripLeadingZeros([p \in 1..w |-> out(w - p)])

\* round-to-nearest, ties-to-even, of bits * 2^e (bits[1] = 1, at least 53
\* bits; sticky says that non-zero bits follow beyond the given ones)
RoundToDouble(bits, e, sticky) ==
  LET L == Len(bits)
      kept == SubSeq(bits, 1, SignificandBits)
      guard == IF L > SignificandBits THEN bits[SignificandBits + 1] ELSE 0
      rest == sticky \/ \E i \in (SignificandBits + 2)..L : bits[i] = 1
      up == guard = 1 /\ (rest \/ kept[SignificandBits] = 1)
      m == IF up THEN MulAddSmall(kept, 1, 1) ELSE kept
      e1 == e + (L - SignificandBits)
  IN  IF Len(m) > SignificandBits
      THEN [m |-> SubSeq(m, 1, SignificandBits), e |-> e1 + 1]
      ELSE [m |-> m, e |-> e1]

\* a / b for naturals a and b > 0 (both exactly representable)
FloatDiv(a, b) ==
  IF a = 0 THEN FloatZero
  ELSE
    LET intBits == NatToBits(a \div b)
        W == Len(intBits)
        N == 32 + SignificandBits + 1
        rem[i \in 0..N] == IF i = 0 THEN a % b ELSE (2 * rem[i - 1]) % b
        bit(p) == IF p <= W THEN intBits[p] ELSE (2 * rem[p - W - 1]) \div b
        first == Min({p \in 1..(W + 32) : bit(p) = 1})
        last == first + SignificandBits
    IN  RoundToDouble([p \in 1..(SignificandBits + 1) |-> bit(first + p - 1)],
                      W - last, rem[last - W] # 0)

\* x * k for a double x and a small natural k (exactly representable)
FloatMulSmall(x, k) ==
  IF x.m = <<>> \/ k = 0 THEN FloatZero
  ELSE RoundToDouble(MulAddSmall(x.m, k, 0), x.e, FALSE)

\* Math.round(x) for a double 0 <= x < 2^31 : floor(x + 0.5), computed exactly
MathRound(x) ==
  IF x.m = <<>> THEN 0
  ELSE LET ib == Len(x.m) + x.e     \* number of bits before the binary point
       IN  IF ib < 0 THEN 0
           ELSE IF ib >= Len(x.m)
                THEN BitsToNat(x.m \o [i \in 1..x.e |-> 0])
                ELSE BitsToNat(SubSeq(x.m, 1, ib)) + x.m[ib + 1]


(***************************************************************************)
(* processImage: the size of the canvas the image is drawn on.             *)
(***************************************************************************)
DefaultMaxWidth == 1600

resizeOf_Truncates(width, height, limit) ==
  IF width > limit
  THEN [width |-> limit, height |-> (height * limit) \div width]
  ELSE [width |-> width, height |-> height]

\* let width, height; if (width > maxWidth) { ... }
resizeOf(width, height, limit) ==
  IF width > limit
  THEN [width |-> limit, height |-> MathRound(FloatDiv(height * limit, width))]
  ELSE [width |-> width, height |-> height]

\* no upload in progress
NoUpload ==
  /\ image = [width |-> 0, height |-> 0]
  /\ maxWidth = DefaultMaxWidth
  /\ promise = [state |-> "none"]

\* no list of posts is shown
NoList ==
  /\ blogs = <<>>
  /\ isLoading = FALSE
  /\ searchTerm = <<>>
  /\ currentPage = 1

\* null and undefined
Null == [null |-> TRUE]

\* no editor is open
NoEditor ==
  /\ seoAudit = Null
  /\ rendered = Null
  /\ timer = FALSE
  /\ localStorage = [draft_blog |-> Null]
  /\ publish = [state |-> "idle"]
  /\ request = Null
  /\ api = "first"
  /\ mounted = "unmounted"
  /\ edits = 0

OthersIdle == NoUpload /\ NoList /\ NoEditor

(***************************************************************************)
(* calculateSEOScore, evaluator by evaluator.                              *)
(***************************************************************************)
Issue(sev, msg, id) == [severity |-> sev, message |-> msg, id |-> id]

\* `blog.f || d` for a field that is absent or present
OrElse_TitleFromSlug(rec, f, d) ==
  IF f = "title" /\ "slug" \in DOMAIN rec THEN rec.slug
  ELSE IF f \in DOMAIN rec THEN rec[f] ELSE d

OrElse(rec, f, d) == IF f \in DOMAIN rec THEN rec[f] ELSE d

DefaultSeoFields_Placeholder ==
  [metaTitle |-> <<>>, metaDescription |-> <<>>, canonicalUrl |-> <<>>,
   keywords |-> <<<<"s","e","o">>>>, ogTitle |-> <<>>, ogDescription |-> <<>>,
   ogImage |-> <<>>]

DefaultSeoFields ==
  [metaTitle |-> <<>>, metaDescription |-> <<>>, canonicalUrl |-> <<>>,
   keywords |-> <<>>, ogTitle |-> <<>>, ogDescription |-> <<>>, ogImage |-> <<>>]

\* 1. Title Length
titleScoreOf_InclusiveShort(titleLen) ==
  IF titleLen <= 10 THEN 20 ELSE IF titleLen > 70 THEN 60 ELSE 100

titleScoreOf_LongLimit80(titleLen) ==
  IF titleLen < 10 THEN 20 ELSE IF titleLen > 80 THEN 60 ELSE 100

titleScoreOf(titleLen) ==
  IF titleLen < 10 THEN 20 ELSE IF titleLen > 70 THEN 60 ELSE 100

titleIssues_InclusiveLong(titleLen) ==
  IF titleLen < 10 THEN <<Issue("high", "Title is too short.", "title-short")>>
  ELSE IF titleLen >= 70
       THEN <<Issue("medium", "Title is too long, might get truncated.", "title-long")>>
       ELSE <<>>

titleIssues(titleLen) ==
  IF titleLen < 10 THEN <<Issue("high", "Title is too short.", "title-short")>>
  ELSE IF titleLen > 70
       THEN <<Issue("medium", "Title is too long, might get truncated.", "title-long")>>
       ELSE <<>>

\* 2. Short Description
descScoreOf_InclusiveLong(descLen) ==
  IF descLen < 50 THEN 40 ELSE IF descLen >= 160 THEN 80 ELSE 100

descScoreOf(descLen) ==
  IF descLen < 50 THEN 40 ELSE IF descLen > 160 THEN 80 ELSE 100

descIssues(descLen) ==
  IF descLen < 50
  THEN <<Issue("medium", "Short description is too thin.", "desc-short")>>
  ELSE IF descLen > 160
       THEN <<Issue("low", "Short description exceeds 160 chars.", "desc-long")>>
       ELSE <<>>

\* 3. Image Alt Text
AltEq == <<"a","l","t","=">>
AltEmpty == <<"a","l","t","=","\"","\"">>

HasAlt_KnowsSingleQuotes(img) ==
  /\ includes(img, AltEq)
  /\ ~includes(img, AltEmpty)
  /\ ~includes(img, <<"a","l","t","=","'","'">>)

HasAlt(img) == includes(img, AltEq) /\ ~includes(img, AltEmpty)

imgsWithAltOf(imgTags) == SelectSeq(imgTags, HasAlt)

altScoreOf(nTags, nWithAlt) ==
  IF nTags = 0 THEN 100
  ELSE MathRound(FloatMulSmall(FloatDiv(nWithAlt, nTags), 100))

altIssues_CountsAllTags(altScore, nTags, nWithAlt) ==
  IF altScore < 100 /\ nTags > 0
  THEN <<Issue("high",
               numberToString(nTags) \o " images missing alt text.",
               "img-alt")>>
  ELSE <<>>

altIssues(altScore, nTags, nWithAlt) ==
  IF altScore < 100 /\ nTags > 0
  THEN <<Issue("high",
               numberToString(nTags - nWithAlt) \o " images missing alt text.",
               "img-alt")>>
  ELSE <<>>

\* 4. Word Count
wordCountOf(textContent) == Len(SelectSeq(split(textContent), NonEmpty))

readabilityScoreOf_Inclusive(wordCount) == IF wordCount <= 300 THEN 50 ELSE 100

readabilityScoreOf_NoPenalty(wordCount) == 100

readabilityScoreOf(wordCount) == IF wordCount < 300 THEN 50 ELSE 100

wordIssues(wordCount) ==
  IF wordCount < 300
  THEN <<Issue("high",
               "Content is too short for SEO ranking (aim for 300+ words).",
               "word-count")>>
  ELSE <<>>

\* 5. Keyword Presence
missingKeywordsOf_CaseSensitive(keywords, textContent) ==
  LET Missing(k) == ~includes(textContent, toLowerCase(k))
  IN  SelectSeq(keywords, Missing)

missingKeywordsOf(keywords, textContent) ==
  LET lower == toLowerCase(textContent)
      Missing(k) == ~includes(lower, toLowerCase(k))
  IN  SelectSeq(keywords, Missing)

keywordScoreOf_EmptyIsFull(keywords, missingKeywords) ==
  IF Len(missingKeywords) > 0
  THEN Max(0, 100 - (Len(missingKeywords) * 20))
  ELSE 100

keywordScoreOf_NoClamp(keywords, missingKeywords) ==
  IF Len(keywords) > 0
  THEN IF Len(missingKeywords) > 0
       THEN 100 - (Len(missingKeywords) * 20)
       ELSE 100
  ELSE 50

keywordScoreOf_SkipsBlank(keywords, missingKeywords) ==
  IF Len(SelectSeq(keywords, NonEmpty)) > 0
  THEN IF Len(missingKeywords) > 0
       THEN Max(0, 100 - (Len(missingKeywords) * 20))
       ELSE 100
  ELSE 50

keywordScoreOf(keywords, missingKeywords) ==
  IF Len(keywords) > 0
  THEN IF Len(missingKeywords) > 0
       THEN Max(0, 100 - (Len(missingKeywords) * 20))
       ELSE 100
  ELSE 50

keywordIssues(keywords, missingKeywords) ==
  IF Len(keywords) > 0
  THEN IF Len(missingKeywords) > 0
       THEN <<Issue("medium",
                    "Missing keywords in body: " \o join(missingKeywords, ", "),
                    "keywords")>>
       ELSE <<>>
  ELSE <<Issue("low", "No focus keywords defined.", "no-keywords")>>

\* floor of a double 0 <= x < 2^31
FloatFloor(x) ==
  IF x.m = <<>> THEN 0
  ELSE LET ib == Len(x.m) + x.e
       IN  IF ib <= 0 THEN 0
           ELSE IF ib >= Len(x.m)
                THEN BitsToNat(x.m \o [i \in 1..x.e |-> 0])
                ELSE BitsToNat(SubSeq(x.m, 1, ib))

\* `x >= n` for a double x >= 0 and a natural n
FloatGeq(x, n) == FloatFloor(x) >= n

\* Calculate Average, grade
gradeOf_RoundsFirst(scoreAccumulator) ==
  LET average == MathRound(FloatDiv(scoreAccumulator, 5))
  IN  IF average >= 90 THEN "A"
      ELSE IF average >= 80 THEN "B"
      ELSE IF average >= 70 THEN "C"
      ELSE IF average >= 60 THEN "D"
      ELSE "F"

gradeOf_CountsPlaceholders(scoreAccumulator) ==
  LET average == FloatDiv(scoreAccumulator + 300, 8)
  IN  IF FloatGeq(average, 90) THEN "A"
      ELSE IF FloatGeq(average, 80) THEN "B"
      ELSE IF FloatGeq(average, 70) THEN "C"
      ELSE IF FloatGeq(average, 60) THEN "D"
      ELSE "F"

gradeOf(scoreAccumulator) ==
  LET average == FloatDiv(scoreAccumulator, 5)
  IN  IF FloatGeq(average, 90) THEN "A"
      ELSE IF FloatGeq(average, 80) THEN "B"
      ELSE IF FloatGeq(average, 70) THEN "C"
      ELSE IF FloatGeq(average, 60) THEN "D"
      ELSE "F"

\* the issues list after the five evaluators have pushed, in statement order
pushedIssues_KeywordsFirst(t, d, a, w, k) == k \o t \o d \o a \o w

pushedIssues(t, d, a, w, k) == t \o d \o a \o w \o k

\* the returned object
auditResult_MetaPlaceholder(titleScore, descScore, altScore, wordCount, keywordScore, readabilityScore, canonicalUrl, grade, issues) ==
  [titleLengthScore |-> titleScore,
   metaDescriptionScore |-> 100,
   imageAltCompleteness |-> altScore,
   estimatedWordCount |-> wordCount,
   keywordPresenceScore |-> keywordScore,
   headingStructureQuality |-> 100,
   slugReadabilityScore |-> 100,
   externalLinkCount |-> 0,
   internalLinkCount |-> 0,
   readabilityScore |-> readabilityScore,
   canonicalUrlCheck |-> canonicalUrl # <<>>,
   socialTagsScore |-> 100,
   shortDescriptionScore |-> descScore,
   overallSEOGrade |-> grade,
   issues |-> issues]

auditResult(titleScore, descScore, altScore, wordCount, keywordScore, readabilityScore, canonicalUrl, grade, issues) ==
  [titleLengthScore |-> titleScore,
   metaDescriptionScore |-> descScore,
   imageAltCompleteness |-> altScore,
   estimatedWordCount |-> wordCount,
   keywordPresenceScore |-> keywordScore,
   headingStructureQuality |-> 100,
   slugReadabilityScore |-> 100,
   externalLinkCount |-> 0,
   internalLinkCount |-> 0,
   readabilityScore |-> readabilityScore,
   canonicalUrlCheck |-> canonicalUrl # <<>>,
   socialTagsScore |-> 100,
   shortDescriptionScore |-> descScore,
   overallSEOGrade |-> grade,
   issues |-> issues]

calculateSEOScore(b) ==
  LET title == OrElse(b, "title", <<>>)
      shortDescription == OrElse(b, "shortDescription", <<>>)
      body == OrElse(b, "body", <<>>)
      seoFields == OrElse(b, "seoFields", DefaultSeoFields)
      titleScore == titleScoreOf(Len(title))
      descScore == descScoreOf(Len(shortDescription))
      imgTags == matchImg(body)
      imgsWithAlt == imgsWithAltOf(imgTags)
      altScore == altScoreOf(Len(imgTags), Len(imgsWithAlt))
      textContent == replaceTags(body)
      wordCount == wordCountOf(textContent)
      readabilityScore == readabilityScoreOf(wordCount)
      keywords == OrElse(seoFields, "keywords", <<>>)
      missingKeywords == missingKeywordsOf(keywords, textContent)
      keywordScore == keywordScoreOf(keywords, missingKeywords)
      scoreAccumulator ==
        titleScore + descScore + altScore + readabilityScore + keywordScore
  IN  auditResult(titleScore, descScore, altScore, wordCount, keywordScore,
                  readabilityScore, OrElse(seoFields, "canonicalUrl", <<>>),
                  gradeOf(scoreAccumulator),
                  pushedIssues(titleIssues(Len(title)),
                               descIssues(Len(shortDescription)),
                               altIssues(altScore, Len(imgTags), Len(imgsWithAlt)),
                               wordIssues(wordCount),
                               keywordIssues(keywords, missingKeywords)))


(***************************************************************************)
(* The explored documents.                                                 *)
(***************************************************************************)
Chars(c, n) == [i \in 1..n |-> c]

Repeat(s, n) == [i \in 1..(n * Len(s)) |-> s[((i - 1) % Len(s)) + 1]]

RECURSIVE Flatten(_)
Flatten(ss) == IF ss = <<>> THEN <<>> ELSE Head(ss) \o Flatten(Tail(ss))

SeqsUpTo(S, n) == UNION {[1..k -> S] : k \in 0..n}

Doc(t, d, b, k, c) ==
  [title |-> t, shortDescription |-> d, body |-> b,
   seoFields |-> [keywords |-> k, canonicalUrl |-> c]]

GoodTitle == Chars("t", 45)
GoodDesc == Chars("d", 140)

KwCat == <<"c","a","t">>
KwDog == <<"D","o","g">>
KwBird == <<"b","i","r","d">>
KwSpan == <<"g"," ","d">>
KwWord == <<"w">>

ImgAltCat == <<"<","i","m","g"," ","a","l","t","=","\"","c","a","t","\"",">">>
ImgAltEmpty == <<"<","i","m","g"," ","a","l","t","=","\"","\"",">">>
ImgNoAlt == <<"<","i","m","g"," ","s","r","c","=","x",">">>

Frags ==
  { <<"C","a","t","e","g","o","r","y">>, <<"d","o","g">>, <<" ">>, <<"\n">>, <<"<","b",">">>,
    ImgAltCat, ImgAltEmpty, ImgNoAlt, <<"<","i","m","g">>, <<">">>, <<"<">> }

\* every title length up to the bound
TitleDocs ==
  {Doc(Chars("t", n), GoodDesc, <<"C","a","t","e","g","o","r","y">>, <<KwCat>>, <<>>) :
     n \in 0..MaxTitleLen}

\* every short-description length up to the bound
DescDocs ==
  {Doc(GoodTitle, Chars("d", n), <<"C","a","t","e","g","o","r","y">>, <<KwCat>>, <<>>) :
     n \in 0..MaxDescLen}

\* every word count up to the bound, words separated by whitespace
WordDocs ==
  {Doc(GoodTitle, GoodDesc, Repeat(<<"w">> \o sep, n), <<KwWord>>, <<>>) :
     n \in 0..MaxWords, sep \in {<<" ">>, <<" ", "\n">>}}

\* every number of compliant and non-compliant image tags up to the bound
ImgDocs ==
  {Doc(GoodTitle, GoodDesc, Repeat(ImgAltCat, x[1]) \o Repeat(ImgNoAlt, x[2] - x[1]),
       <<>>, <<"u">>) :
     x \in {y \in (0..MaxImgs) \X (0..MaxImgs) : y[1] <= y[2]}}

\* bodies assembled from markup fragments
FragDocs ==
  {Doc(GoodTitle, GoodDesc, Flatten(fs), ks, <<>>) :
     fs \in SeqsUpTo(Frags, MaxFrags),
     ks \in {<<KwCat>>, <<KwDog, KwSpan>>}}

\* every keyword list up to the bound
KeywordDocs ==
  {Doc(GoodTitle, GoodDesc, b, ks, <<>>) :
     b \in {<<>>, <<"C","a","t","e","g","o","r","y">>, <<"C","a","t","e","g","o","r","y">> \o <<"<","b",">">> \o <<"d","o","g">>},
     ks \in SeqsUpTo({KwCat, KwDog, KwBird}, MaxKeywords)}

\* documents with absent optional fields
AbsentDocs ==
  { [title |-> GoodTitle, shortDescription |-> GoodDesc, body |-> <<"C","a","t","e","g","o","r","y">>],
    [title |-> GoodTitle, shortDescription |-> GoodDesc, body |-> <<"C","a","t","e","g","o","r","y">>,
     seoFields |-> [canonicalUrl |-> <<"u">>]],
    [seoFields |-> [keywords |-> <<KwCat>>]],
    [body |-> <<"C","a","t","e","g","o","r","y">> \o ImgNoAlt] }

\* combinations of the five sub-scores
GradeDocs ==
  {Doc(Chars("t", tl), Chars("d", dl),
       Repeat(ImgAltCat, im[1]) \o Repeat(ImgNoAlt, im[2]) \o Repeat(<<"w", " ">>, wc),
       ks, <<>>) :
     tl \in {9, 10, 71}, dl \in {49, 50, 161},
     im \in {<<0, 0>>, <<8, 1>>, <<1, 1>>, <<0, 1>>, <<3, 1>>},
     wc \in {299, 300},
     ks \in {<<KwWord>>} \cup {Chars(KwBird, k) : k \in 0..MaxKeywords}}

\* the documents of the test suite and of the end-to-end scenario
ScenarioTitle ==
  <<"A"," ","V","e","r","y"," ","G","o","o","d"," ","T","i","t","l","e"," ",
    "F","o","r"," ","S","E","O"," ","P","u","r","p","o","s","e","s"," ","T",
    "h","a","t"," ","I","s"," ","N","e","i","t","h","e","r"," ","T","o","o",
    " ","L","o","n","g"," ","N","o","r"," ","T","o","o"," ","S","h","o","r",
    "t">>

ScenarioDesc ==
  <<"T","h","i","s"," ","i","s"," ","a"," ","p","e","r","f","e","c","t"," ",
    "l","e","n","g","t","h"," ","d","e","s","c","r","i","p","t","i","o","n",
    " ","t","h","a","t"," ","s","i","t","s"," ","r","i","g","h","t"," ","b",
    "e","t","w","e","e","n"," ","1","2","0"," ","a","n","d"," ","1","6","0",
    " ","c","h","a","r","a","c","t","e","r","s"," ","t","o"," ","e","n","s",
    "u","r","e"," ","t","h","a","t"," ","t","h","e"," ","s","e","a","r","c",
    "h"," ","e","n","g","i","n","e"," ","o","p","t","i","m","i","z","e","r",
    "s"," ","a","r","e"," ","h","a","p","p","y"," ","w","i","t","h"," ","t",
    "h","e"," ","r","e","s","u","l","t"," ","w","e"," ","p","r","o","v","i",
    "d","e",".">>

ScenarioBody ==
  <<"<","p",">","s","h","o","r","t"," ","t","e","x","t"," ","u","n","d","e",
    "r"," ","3","0","0"," ","w","o","r","d","s","<","/","p",">">>

MockBody ==
  <<"<","p",">","T","h","i","s"," ","i","s"," ","s","o","m","e"," ","c","o",
    "n","t","e","n","t"," ","t","h","a","t"," ","i","s"," ","d","e","f","i",
    "n","i","t","e","l","y"," ","s","h","o","r","t","e","r"," ","t","h","a",
    "n"," ","3","0","0"," ","w","o","r","d","s",".","<","/","p",">">>

KwContent == <<"c","o","n","t","e","n","t">>
KwBanana == <<"b","a","n","a","n","a">>

ScenarioDoc == Doc(ScenarioTitle, ScenarioDesc, ScenarioBody, <<KwContent>>, <<>>)

ScenarioDocs ==
  { ScenarioDoc,
    Doc(ScenarioTitle, ScenarioDesc, MockBody, <<KwContent>>, <<>>),
    Doc(ScenarioTitle, ScenarioDesc, MockBody, <<KwBanana>>, <<>>) }

\* a record with the field f when o = {value}, without it when o = {}
Field(f, o) == [x \in {f : v \in o} |-> CHOOSE v \in o : TRUE]

EmptyDoc == Field("title", {})

\* every combination of absent, empty and filled optional fields
OptionalDocs ==
  {Field("title", t) @@ Field("shortDescription", d) @@ Field("body", b)
     @@ Field("seoFields", sf) :
     t \in {{}, {<<>>}, {GoodTitle}},
     d \in {{}, {<<>>}, {GoodDesc}},
     b \in {{}, {<<>>}, {<<"C","a","t","e","g","o","r","y">>}},
     sf \in {{}, {Field("canonicalUrl", {<<>>})},
             {[keywords |-> <<>>, canonicalUrl |-> <<>>]},
             {[keywords |-> <<KwCat>>, canonicalUrl |-> <<"u">>]}}}

\* documents that vary every sub-score and the canonical URL
PlaceholderDocs ==
  {Doc(Chars("t", tl), Chars("d", dl), b, ks, c) :
     tl \in {9, 45, 71}, dl \in {49, 140, 161},
     b \in {<<>>, ImgNoAlt, ImgAltCat \o ImgNoAlt, Repeat(<<"w", " ">>, 300)},
     ks \in {<<>>, <<KwWord>>, <<KwBird>>, <<KwBird, KwDog>>},
     c \in {<<>>, <<"u">>}}

\* image tags whose empty alt attribute is written in other ways
ImgAltSingleQuoted == <<"<","i","m","g"," ","a","l","t","=","'","'",">">>
ImgAltSpacedEquals == <<"<","i","m","g"," ","a","l","t"," ","="," ","\"","\"",">">>
ImgAltSpaceBefore == <<"<","i","m","g"," ","a","l","t"," ","=","\"","\"",">">>
ImgAltSpaceAfter == <<"<","i","m","g"," ","a","l","t","="," ","\"","\"",">">>

AltVariants ==
  {ImgAltSingleQuoted, ImgAltSpacedEquals, ImgAltSpaceBefore, ImgAltSpaceAfter,
   ImgAltEmpty, ImgAltCat, ImgNoAlt}

\* bodies with one such tag, alone or next to text and a compliant image
AltVariantDocs ==
  {Doc(GoodTitle, GoodDesc, pre \o img \o post, <<KwCat>>, <<>>) :
     img \in AltVariants,
     pre \in {<<>>, <<"c","a","t"," ">>, ImgAltCat},
     post \in {<<>>, <<" ","d","o","g">>, ImgAltCat}}

\* long bodies in which exactly one image tag lacks its alt text
ManyImgDocs ==
  {Doc(GoodTitle, GoodDesc, Repeat(ImgAltCat, n - 1) \o ImgNoAlt, <<>>, <<>>) :
     n \in 195..MaxManyImgs}

\* a complete BlogState: the scored fields and all the others
RichDoc(t, d, b, k, c, slug, tags, status, meta) ==
  [id |-> "7", title |-> t, category |-> "childcare", shortDescription |-> d,
   slug |-> slug, body |-> b, tags |-> tags, featuredImage |-> meta,
   status |-> status,
   publishedAt |-> IF status = "PUBLISHED" THEN "2024-01-01" ELSE "",
   seoFields |-> [metaTitle |-> meta, metaDescription |-> meta,
                  canonicalUrl |-> c, keywords |-> k,
                  ogTitle |-> meta, ogDescription |-> meta, ogImage |-> meta]]

RichDocs ==
  {RichDoc(t, GoodDesc, b, k, c, slug, tags, status, meta) :
     t \in {<<>>, GoodTitle},
     b \in {<<"C","a","t","e","g","o","r","y">>, ImgNoAlt},
     k \in {<<>>, <<KwCat>>},
     c \in {<<>>, <<"u">>},
     slug \in {<<>>, <<"s">>},
     tags \in {<<>>, <<KwCat>>},
     status \in {"DRAFT", "PUBLISHED"},
     meta \in {<<>>, KwBird}}

\* texts typed into the Keywords input
KeywordInputs ==
  { <<>>, <<" ">>, <<",">>, <<" ", ",", " ">>, KwCat, KwBird,
    KwCat \o <<",", " ">> \o KwBird, KwBird \o <<",">>, <<",", " ">> \o KwBird }

\* documents whose keywords come from the Keywords input
KeywordInputDocs ==
  {Doc(GoodTitle, GoodDesc, b, keywordsFromInput(value), <<>>) :
     b \in {<<>>, <<"C","a","t","e","g","o","r","y">>},
     value \in KeywordInputs}

IsAuditDocument(d) ==
  \/ d \in PlaceholderDocs \/ d \in OptionalDocs \/ d \in AltVariantDocs
  \/ d \in ManyImgDocs \/ d \in RichDocs \/ d \in KeywordInputDocs

IsDocument(d) ==
  \/ d \in TitleDocs \/ d \in DescDocs \/ d \in WordDocs \/ d \in ImgDocs
  \/ d \in FragDocs \/ d \in KeywordDocs \/ d \in AbsentDocs
  \/ d \in GradeDocs \/ d \in ScenarioDocs \/ d \in OptionalDocs

(***************************************************************************)
(* The callers of calculateSEOScore and the documents they share.          *)
(***************************************************************************)
Calls == 1..MaxCallers

CallDocs ==
  << ScenarioDoc,
     EmptyDoc,
     Doc(GoodTitle, GoodDesc, ImgNoAlt \o ImgAltCat \o <<"a"," ","c","a","t">>,
         <<KwDog, KwCat>>, <<"u">>) >>

\* the bindings of an activation before any of them is assigned
NoLocals ==
  [blog |-> 0, issues |-> 0, scoreAccumulator |-> 0,
   title |-> <<>>, shortDescription |-> <<>>, body |-> <<>>,
   seoFields |-> DefaultSeoFields,
   titleScore |-> 0, descScore |-> 0, altScore |-> 0, textContent |-> <<>>,
   wordCount |-> 0, readabilityScore |-> 0, keywordScore |-> 0]

NoCalls ==
  /\ docs = CallDocs
  /\ calls = [c \in Calls |-> [pc |-> "idle", arg |-> 0]]
  /\ env = [c \in Calls |-> NoLocals]
  /\ arrays = <<>>
  /\ returned = [c \in Calls |-> <<>>]

(***************************************************************************)
(* The state machine: a document is chosen and scored.                     *)
(***************************************************************************)
Init ==
  /\ IsDocument(blog)
  /\ results = <<>>
  /\ NoCalls
  /\ OthersIdle

\* one call of calculateSEOScore on the document
Score ==
  /\ results = <<>>
  /\ results' = Append(results, calculateSEOScore(blog))
  /\ UNCHANGED blog
  /\ UNCHANGED callVars
  /\ UNCHANGED otherVars

Next == Score

Spec == Init /\ [][Next]_vars

\* the same machine started on the documents of the edge cases
InitAudit ==
  /\ IsAuditDocument(blog)
  /\ results = <<>>
  /\ NoCalls
  /\ OthersIdle

SpecAudit == InitAudit /\ [][Next]_vars

(***************************************************************************)
(* The state machine of interleaved calls: every caller invokes            *)
(* calculateSEOScore once on one of the shared documents, and the calls    *)
(* advance evaluator by evaluator in any order.                            *)
(***************************************************************************)
\* the activation record that holds the const / let bindings of call c
EnvOf_Shared(c) == 1

EnvOf(c) == c

\* the reference of the array that the literal [] creates
NewArray_ModuleLevel(heap) == 1

NewArray(heap) == Len(heap) + 1

At(c, label) == calls[c].pc = label

Goto(c, label) == calls' = [calls EXCEPT ![c].pc = label]

\* issues.push, when the evaluator has an issue
push(heap, ref, pushed) == [heap EXCEPT ![ref] = @ \o pushed]

InitCalls ==
  /\ blog = EmptyDoc
  /\ results = <<>>
  /\ NoCalls
  /\ OthersIdle

\* the call and the declarations up to the defaulted fields
Invoke(c, d) ==
  /\ At(c, "idle")
  /\ calls' = [calls EXCEPT ![c] = [pc |-> "title", arg |-> d]]
  /\ arrays' = Append(arrays, <<>>)
  /\ env' = [env EXCEPT
               ![EnvOf(c)] =
                  [@ EXCEPT
                     !.blog = d,
                     !.issues = NewArray(arrays),
                     !.scoreAccumulator = 0,
                     !.title = OrElse(docs[d], "title", <<>>),
                     !.shortDescription = OrElse(docs[d], "shortDescription", <<>>),
                     !.body = OrElse(docs[d], "body", <<>>),
                     !.seoFields = OrElse(docs[d], "seoFields", DefaultSeoFields)]]
  /\ UNCHANGED <<docs, returned, blog, results, otherVars>>

\* 1. Title Length
EvalTitle(c) ==
  LET e == env[EnvOf(c)]
      titleLen == Len(e.title)
      titleScore == titleScoreOf(titleLen)
  IN  /\ At(c, "title")
      /\ arrays' = push(arrays, e.issues, titleIssues(titleLen))
      /\ env' = [env EXCEPT
                   ![EnvOf(c)] =
                      [@ EXCEPT !.titleScore = titleScore,
                                !.scoreAccumulator = @ + titleScore]]
      /\ Goto(c, "desc")
      /\ UNCHANGED <<docs, returned, blog, results, otherVars>>

\* 2. Short Description
EvalDesc(c) ==
  LET e == env[EnvOf(c)]
      descLen == Len(e.shortDescription)
      descScore == descScoreOf(descLen)
  IN  /\ At(c, "desc")
      /\ arrays' = push(arrays, e.issues, descIssues(descLen))
      /\ env' = [env EXCEPT
                   ![EnvOf(c)] =
                      [@ EXCEPT !.descScore = descScore,
                                !.scoreAccumulator = @ + descScore]]
      /\ Goto(c, "alt")
      /\ UNCHANGED <<docs, returned, blog, results, otherVars>>

\* 3. Image Alt Text
EvalAlt(c) ==
  LET e == env[EnvOf(c)]
      imgTags == matchImg(e.body)
      imgsWithAlt == imgsWithAltOf(imgTags)
      altScore == altScoreOf(Len(imgTags), Len(imgsWithAlt))
  IN  /\ At(c, "alt")
      /\ arrays' = push(arrays, e.issues,
                        altIssues(altScore, Len(imgTags), Len(imgsWithAlt)))
      /\ env' = [env EXCEPT
                   ![EnvOf(c)] =
                      [@ EXCEPT !.altScore = altScore,
                                !.scoreAccumulator = @ + altScore]]
      /\ Goto(c, "words")
      /\ UNCHANGED <<docs, returned, blog, results, otherVars>>

\* 4. Word Count
EvalWords(c) ==
  LET e == env[EnvOf(c)]
      textContent == replaceTags(e.body)
      wordCount == wordCountOf(textContent)
      readabilityScore == readabilityScoreOf(wordCount)
  IN  /\ At(c, "words")
      /\ arrays' = push(arrays, e.issues, wordIssues(wordCount))
      /\ env' = [env EXCEPT
                   ![EnvOf(c)] =
                      [@ EXCEPT !.textContent = textContent,
                                !.wordCount = wordCount,
                                !.readabilityScore = readabilityScore,
                                !.scoreAccumulator = @ + readabilityScore]]
      /\ Goto(c, "keywords")
      /\ UNCHANGED <<docs, returned, blog, results, otherVars>>

\* 5. Keyword Presence: what the evaluator does to its own bindings and array
KeywordLocals(c) ==
  LET e == env[EnvOf(c)]
      keywords == OrElse(e.seoFields, "keywords", <<>>)
      missingKeywords == missingKeywordsOf(keywords, e.textContent)
      keywordScore == keywordScoreOf(keywords, missingKeywords)
  IN  /\ At(c, "keywords")
      /\ arrays' = push(arrays, e.issues, keywordIssues(keywords, missingKeywords))
      /\ env' = [env EXCEPT
                   ![EnvOf(c)] =
                      [@ EXCEPT !.keywordScore = keywordScore,
                                !.scoreAccumulator = @ + keywordScore]]
      /\ Goto(c, "grade")
      /\ UNCHANGED <<returned, blog, results, otherVars>>

\* a variant that lower-cases the keywords of the document in place
EvalKeywords_LowersInPlace(c) ==
  LET d == env[EnvOf(c)].blog
      keywords == OrElse(OrElse(docs[d], "seoFields", DefaultSeoFields),
                         "keywords", <<>>)
      lowered == [i \in 1..Len(keywords) |-> toLowerCase(keywords[i])]
  IN  /\ KeywordLocals(c)
      /\ docs' = [docs EXCEPT ![d] = [seoFields |-> [keywords |-> lowered]] @@ @]

\* 5. Keyword Presence: filter, toLowerCase, includes and join only read
EvalKeywords(c) ==
  /\ KeywordLocals(c)
  /\ UNCHANGED docs

\* Calculate Average, and the returned object
Return(c) ==
  LET e == env[EnvOf(c)]
  IN  /\ At(c, "grade")
      /\ returned' =
            [returned EXCEPT
               ![c] = auditResult(e.titleScore, e.descScore, e.altScore,
                                  e.wordCount, e.keywordScore, e.readabilityScore,
                                  OrElse(e.seoFields, "canonicalUrl", <<>>),
                                  gradeOf(e.scoreAccumulator),
                                  arrays[e.issues])]
      /\ Goto(c, "done")
      /\ UNCHANGED <<docs, env, arrays, blog, results, otherVars>>

NextCalls ==
  \E c \in Calls :
    \/ \E d \in DOMAIN docs : Invoke(c, d)
    \/ EvalTitle(c)
    \/ EvalDesc(c)
    \/ EvalAlt(c)
    \/ EvalWords(c)
    \/ EvalKeywords(c)
    \/ Return(c)

SpecCalls == InitCalls /\ [][NextCalls]_vars


(***************************************************************************)
(* The state machine of processImage: the file is read and decoded, then   *)
(* the promise resolves with the resized size, or rejects.                 *)
(***************************************************************************)
\* nobody scores a document
NoAudit ==
  /\ blog = EmptyDoc
  /\ results = <<>>
  /\ NoCalls

ImageDims == (0..MaxImgDim) \cup {1599, 1600, 1601, 3199, 3200, 4000}

InitImage ==
  /\ image \in [width : ImageDims, height : ImageDims]
  /\ maxWidth \in {DefaultMaxWidth, 8}
  /\ promise = [state |-> "pending"]
  /\ NoAudit
  /\ NoList
  /\ NoEditor

\* img.onload with a 2d context: resolve({ ..., width, height, alt: '' })
ImageLoaded ==
  /\ promise.state = "pending"
  /\ promise' = [state |-> "resolved",
                 value |-> resizeOf(image.width, image.height, maxWidth)
                             @@ [alt |-> ""]]
  /\ UNCHANGED <<image, maxWidth, blog, results, callVars, listVars, editorVars>>

\* img.onload without a 2d context: reject('Canvas context missing')
ContextMissing ==
  /\ promise.state = "pending"
  /\ promise' = [state |-> "rejected", reason |-> "Canvas context missing"]
  /\ UNCHANGED <<image, maxWidth, blog, results, callVars, listVars, editorVars>>

\* reader.onerror = reject
ReaderError ==
  /\ promise.state = "pending"
  /\ promise' = [state |-> "rejected", reason |-> "reader error"]
  /\ UNCHANGED <<image, maxWidth, blog, results, callVars, listVars, editorVars>>

NextImage == ImageLoaded \/ ContextMissing \/ ReaderError

SpecImage == InitImage /\ [][NextImage]_vars

(***************************************************************************)
(* The state machine of BlogList: load, search, page navigation, delete.   *)
(***************************************************************************)
ITEMS_PER_PAGE == 5

MockLength == 12

\* Math.ceil(n / ITEMS_PER_PAGE)
CeilDiv(n, d) == (n + d - 1) \div d

\* a post the API returns
LoadedBlog(i) ==
  [id |-> i,
   title |-> IF i % 2 = 0 THEN <<"K","i","d","s">> ELSE <<"T","i","p","s">>,
   category |-> IF i % 3 = 0 THEN <<"e","d","u","c","a","t","i","o","n">> ELSE <<"c","h","i","l","d","c","a","r","e">>]

\* a post of the demo data used when the API fails; its ids are 0..11
MockBlog(i) ==
  [id |-> i,
   title |-> <<"C","h","i","l","d","c","a","r","e"," ","T","i","p"," ","#">> \o numberToChars(i + 1)
               \o <<" ","f","o","r"," ","H","a","p","p","y"," ","K","i","d","s">>,
   category |-> IF i % 2 = 0 THEN <<"c","h","i","l","d","c","a","r","e">> ELSE <<"e","d","u","c","a","t","i","o","n">>]

SearchTerms == {<<>>, <<"k","i","d">>, <<"E","D","U">>, <<"z","z","z">>}

Matches(b, term) ==
  \/ includes(toLowerCase(b.title), toLowerCase(term))
  \/ includes(toLowerCase(b.category), toLowerCase(term))

filteredBlogs == SelectSeq(blogs, LAMBDA b : Matches(b, searchTerm))

totalPages == CeilDiv(Len(filteredBlogs), ITEMS_PER_PAGE)

\* filteredBlogs.slice((currentPage - 1) * ITEMS_PER_PAGE, currentPage * ITEMS_PER_PAGE)
paginatedBlogs ==
  SubSeq(filteredBlogs,
         Min({(currentPage - 1) * ITEMS_PER_PAGE, Len(filteredBlogs)}) + 1,
         Min({currentPage * ITEMS_PER_PAGE, Len(filteredBlogs)}))

InitList ==
  /\ blogs = <<>>
  /\ isLoading = TRUE
  /\ searchTerm = <<>>
  /\ currentPage = 1
  /\ NoAudit
  /\ NoUpload
  /\ NoEditor

\* loadBlogs, the API answers with n posts
LoadBlogs(n) ==
  /\ isLoading
  /\ blogs' = [i \in 1..n |-> LoadedBlog(i)]
  /\ isLoading' = FALSE
  /\ UNCHANGED <<searchTerm, currentPage, blog, results, callVars, imageVars, editorVars>>

\* loadBlogs, the API fails: the demo data is shown
LoadFailed ==
  /\ isLoading
  /\ blogs' = [i \in 1..MockLength |-> MockBlog(i - 1)]
  /\ isLoading' = FALSE
  /\ UNCHANGED <<searchTerm, currentPage, blog, results, callVars, imageVars, editorVars>>

\* handleDelete on a post of the page shown, confirmed, the API deletes:
\* the post leaves the list (of the demo data, which is longer than MaxBlogs,
\* at most MaxMockDeletes posts are deleted)
DeleteBlog(id) ==
  /\ ~isLoading
  /\ Len(blogs) <= MaxBlogs \/ Len(blogs) > MockLength - MaxMockDeletes
  /\ blogs' = SelectSeq(blogs, LAMBDA b : b.id # id)
  /\ UNCHANGED <<isLoading, searchTerm, currentPage, blog, results, callVars, imageVars, editorVars>>

\* typing in the search box, and the effect that resets the page
Search(term) ==
  /\ ~isLoading
  /\ term # searchTerm
  /\ searchTerm' = term
  /\ currentPage' = 1
  /\ UNCHANGED <<blogs, isLoading, blog, results, callVars, imageVars, editorVars>>

\* the previous-page button
PrevPage ==
  /\ ~isLoading /\ totalPages > 1 /\ currentPage # 1
  /\ currentPage' = Max(1, currentPage - 1)
  /\ UNCHANGED <<blogs, isLoading, searchTerm, blog, results, callVars, imageVars, editorVars>>

\* one of the numbered page buttons
GotoPage(i) ==
  /\ ~isLoading /\ totalPages > 1
  /\ currentPage' = i
  /\ UNCHANGED <<blogs, isLoading, searchTerm, blog, results, callVars, imageVars, editorVars>>

\* the next-page button
NextPage ==
  /\ ~isLoading /\ totalPages > 1 /\ currentPage # totalPages
  /\ currentPage' = Min({totalPages, currentPage + 1})
  /\ UNCHANGED <<blogs, isLoading, searchTerm, blog, results, callVars, imageVars, editorVars>>

NextList ==
  \/ \E n \in 0..MaxBlogs : LoadBlogs(n)
  \/ LoadFailed
  \/ \E id \in {paginatedBlogs[i].id : i \in 1..Len(paginatedBlogs)} : DeleteBlog(id)
  \/ \E term \in SearchTerms : Search(term)
  \/ PrevPage
  \/ \E i \in 1..totalPages : GotoPage(i)
  \/ NextPage

SpecList == InitList /\ [][NextList]_vars

(***************************************************************************)
(* The state machine of BlogEditor inside App: edits, the effects that     *)
(* follow a render, the autosave timeout, publishing and leaving the view. *)
(***************************************************************************)
AutosaveDelay == 5000

INITIAL_STATE ==
  [title |-> <<>>, category |-> "childcare", shortDescription |-> <<>>,
   slug |-> <<>>, body |-> <<"<","p",">","<","/","p",">">>, tags |-> <<>>,
   featuredImage |-> "null", status |-> "DRAFT", publishedAt |-> "null",
   seoFields |-> DefaultSeoFields]

\* posts handed to the editor as initialData
InitialDataDocs ==
  {[id |-> "7", title |-> GoodTitle, category |-> "education",
    shortDescription |-> GoodDesc, slug |-> <<"s">>,
    body |-> <<"C","a","t","e","g","o","r","y">>, tags |-> <<KwCat>>,
    featuredImage |-> "null", status |-> status, publishedAt |-> "null",
    seoFields |-> [DefaultSeoFields EXCEPT !.keywords = <<KwCat>>]] :
     status \in {"DRAFT", "PUBLISHED"}}

TitleTyped == <<"M","y"," ","C","a","t","!">>

\* what the inputs of the form hand to setBlog, per field
FieldInputs(f) ==
  CASE f = "title" -> {<<>>, TitleTyped}
    [] f = "slug" -> {<<>>, <<"s">>}
    [] f = "category" -> {"childcare", "education"}
    [] f = "body" -> {INITIAL_STATE.body, ImgNoAlt}
    [] f = "shortDescription" -> {<<>>, GoodDesc}
    [] f = "tags" -> {keywordsFromInput(value) : value \in {<<>>, KwCat \o <<",", " ">> \o KwBird}}
    [] f = "featuredImage" -> {"blob:1", "blob:2"}

SeoFieldInputs(f) ==
  CASE f = "metaTitle" -> {<<>>, KwBird}
    [] f = "metaDescription" -> {<<>>, KwBird}
    [] f = "keywords" -> {keywordsFromInput(value) : value \in {<<>>, KwCat \o <<",", " ">> \o KwBird}}
    [] f = "canonicalUrl" -> {<<>>, <<"u">>}

IsSlugChar(c) ==
  \/ \E i \in 1..Len(LowerCase) : LowerCase[i] = c
  \/ \E i \in 1..Len(Digits) : Digits[i] = c

\* s.replace(/[^a-z0-9]+/g, '-')
RECURSIVE replaceRunsFrom(_, _)
replaceRunsFrom(s, i) ==
  IF i > Len(s) THEN <<>>
  ELSE IF IsSlugChar(s[i]) THEN <<s[i]>> \o replaceRunsFrom(s, i + 1)
  ELSE IF i > 1 /\ ~IsSlugChar(s[i - 1]) THEN replaceRunsFrom(s, i + 1)
  ELSE <<"-">> \o replaceRunsFrom(s, i + 1)

\* s.replace(/(^-|-$)/g, '')
stripDashes(s) ==
  LET t == IF s # <<>> /\ Head(s) = "-" THEN Tail(s) ELSE s
  IN  IF t # <<>> /\ t[Len(t)] = "-" THEN SubSeq(t, 1, Len(t) - 1) ELSE t

slugOf(title) == stripDashes(replaceRunsFrom(toLowerCase(title), 1))

\* JSON.stringify(value): the text that parses back to value
stringify(value) == [json |-> value]

\* the dependencies of the Live SEO Analysis effect
LiveSeoDeps_NoSeoFields(b) == <<b.title, b.body, b.shortDescription>>

LiveSeoDeps(b) == <<b.title, b.body, b.shortDescription, b.seoFields>>

\* the payload handlePublish builds
PublishPayload(b) ==
  LET audit == calculateSEOScore(b)
  IN  [blog |-> [b EXCEPT !.status = "PUBLISHED", !.publishedAt = "now"],
       seoAudit |-> audit,
       images |-> <<>>,
       auditLog |-> [id |-> "uuid", action |-> "PUBLISH", actor |-> "admin",
                     timestamp |-> "now", liveUrl |-> <<"/","b","l","o","g","/">> \o b.slug,
                     seoAudit |-> audit]]

\* the request of the first definition of api.storeBlog
storeBlog_First(payload) ==
  [endpoint |-> IF "id" \in DOMAIN payload.blog
                THEN "api/blog/update_blog_content/" \o payload.blog.id
                ELSE "api/blog/store_blog_content",
   body |-> stringify(
     [title |-> payload.blog.title,
      short_description |-> payload.blog.shortDescription,
      meta_title |-> payload.blog.seoFields.metaTitle,
      meta_description |-> payload.blog.seoFields.metaDescription,
      content |-> payload.blog.body,
      blog_img |-> payload.blog.featuredImage,
      slug |-> payload.blog.slug,
      author_id |-> 1,
      keywords |-> join(payload.blog.seoFields.keywords, ","),
      status |-> IF payload.blog.status = "PUBLISHED" THEN "true" ELSE "false"])]

\* the request of the second definition of api.storeBlog
storeBlog_Second(payload) ==
  [endpoint |-> "api/blog/store_blog_content", body |-> stringify(payload)]

storeBlog(payload) ==
  IF api = "first" THEN storeBlog_First(payload) ELSE storeBlog_Second(payload)

\* the editor opens, on a new post or on the post given as initialData
InitEditor ==
  /\ blog \in {INITIAL_STATE} \cup InitialDataDocs
  /\ results = <<>>
  /\ NoCalls
  /\ NoUpload
  /\ NoList
  /\ seoAudit = Null
  /\ rendered = Null
  /\ timer = FALSE
  /\ localStorage = [draft_blog |-> Null]
  /\ publish = [state |-> "idle"]
  /\ request = Null
  /\ api \in {"first", "second"}
  /\ mounted = "mounted"
  /\ edits = 0

UnchangedByEditor == UNCHANGED <<results, callVars, imageVars, listVars, api>>

\* the effects of the render of a new blog state: the autosave effect clears
\* its timeout and arms a new one, the Live SEO Analysis effect runs if one of
\* its dependencies has changed
RunEffects ==
  /\ mounted # "unmounted"
  /\ rendered # blog
  /\ timer' = TRUE
  /\ seoAudit' = IF rendered = Null \/ LiveSeoDeps(rendered) # LiveSeoDeps(blog)
                 THEN calculateSEOScore(blog)
                 ELSE seoAudit
  /\ rendered' = blog
  /\ UNCHANGED <<blog, localStorage, publish, request, mounted, edits>>
  /\ UnchangedByEditor

\* setBlog(next) from an event handler; the effects of the render before have
\* been flushed
SetBlog(next) ==
  /\ mounted # "unmounted"
  /\ rendered = blog
  /\ edits < MaxEdits
  /\ next # blog
  /\ blog' = next
  /\ edits' = edits + 1
  /\ UNCHANGED <<seoAudit, rendered, timer, localStorage, publish, request, mounted>>
  /\ UnchangedByEditor

\* onChange of the inputs of title, slug, category, body, short description,
\* tags and featured image
EditField(f, v) ==
  /\ v \in FieldInputs(f)
  /\ SetBlog([blog EXCEPT ![f] = v])

\* onChange of the inputs of the SEO tab
EditSeoField(f, v) ==
  /\ v \in SeoFieldInputs(f)
  /\ SetBlog([blog EXCEPT !.seoFields[f] = v])

\* onBlur of the title input
handleSlugGen ==
  /\ blog.slug = <<>> /\ blog.title # <<>>
  /\ SetBlog([blog EXCEPT !.slug = slugOf(blog.title)])

\* App hands another post as initialData: the effect calls setBlog(initialData)
ReplaceInitialData(d) ==
  /\ mounted = "mounted"
  /\ SetBlog(d)

\* the refresh button of the SEO card
Refresh ==
  /\ mounted # "unmounted"
  /\ seoAudit' = calculateSEOScore(blog)
  /\ UNCHANGED <<blog, rendered, timer, localStorage, publish, request, mounted, edits>>
  /\ UnchangedByEditor

\* the autosave timeout fires AutosaveDelay ms after the effect that armed it;
\* its callback sees the blog of that render
AutosaveFires ==
  /\ timer
  /\ timer' = FALSE
  /\ localStorage' =
       IF rendered.title # <<>> /\ rendered.status = "DRAFT"
       THEN [localStorage EXCEPT !.draft_blog = stringify(rendered)]
       ELSE localStorage
  /\ UNCHANGED <<blog, seoAudit, rendered, publish, request, mounted, edits>>
  /\ UnchangedByEditor

\* handlePublish up to its await: the payload is built and storeBlog posts it
Publish ==
  /\ mounted # "unmounted"
  /\ publish.state # "awaiting"
  /\ publish' = [state |-> "awaiting", payload |-> PublishPayload(blog)]
  /\ request' = storeBlog(PublishPayload(blog))
  /\ UNCHANGED <<blog, seoAudit, rendered, timer, localStorage, mounted, edits>>
  /\ UnchangedByEditor

\* the request succeeds: the draft is removed and onSaveSuccess, which is
\* handleBackToList, leaves the editor view; the view stays mounted while its
\* exit animation runs
PublishSucceeds ==
  /\ publish.state = "awaiting"
  /\ publish' = [state |-> "succeeded", payload |-> publish.payload, edits |-> edits]
  /\ localStorage' = [localStorage EXCEPT !.draft_blog = Null]
  /\ mounted' = IF mounted = "mounted" THEN "exiting" ELSE mounted
  /\ UNCHANGED <<blog, seoAudit, rendered, timer, request, edits>>
  /\ UnchangedByEditor

\* the request fails: only the notification changes
PublishFails ==
  /\ publish.state = "awaiting"
  /\ publish' = [state |-> "failed", payload |-> publish.payload]
  /\ UNCHANGED <<blog, seoAudit, rendered, timer, localStorage, request, mounted, edits>>
  /\ UnchangedByEditor

\* the back button: handleBackToList
Back ==
  /\ mounted = "mounted"
  /\ mounted' = "exiting"
  /\ UNCHANGED <<blog, seoAudit, rendered, timer, localStorage, publish, request, edits>>
  /\ UnchangedByEditor

\* the exit animation ends and the editor unmounts: the cleanup of the
\* autosave effect clears the timeout
ExitDone ==
  /\ mounted = "exiting"
  /\ mounted' = "unmounted"
  /\ timer' = FALSE
  /\ UNCHANGED <<blog, seoAudit, rendered, localStorage, publish, request, edits>>
  /\ UnchangedByEditor

\* an editing session
NextEditor ==
  \/ RunEffects
  \/ \E f \in {"title", "slug", "category", "body", "shortDescription", "tags", "featuredImage"} :
       \E v \in FieldInputs(f) : EditField(f, v)
  \/ \E f \in {"metaTitle", "metaDescription", "keywords", "canonicalUrl"} :
       \E v \in SeoFieldInputs(f) : EditSeoField(f, v)
  \/ handleSlugGen
  \/ \E d \in InitialDataDocs : ReplaceInitialData(d)
  \/ Refresh

SpecEditor == InitEditor /\ [][NextEditor]_vars

\* a session in which the title is typed and the post is published
NextPublish ==
  \/ RunEffects
  \/ \E v \in FieldInputs("title") : EditField("title", v)
  \/ AutosaveFires
  \/ Publish
  \/ PublishSucceeds
  \/ PublishFails
  \/ Back
  \/ ExitDone

SpecPublish == InitEditor /\ [][NextPublish]_vars

(***************************************************************************)
(* Properties of the results.                                              *)
(***************************************************************************)
TitleOf(b) == OrElse(b, "title", <<>>)
DescOf(b) == OrElse(b, "shortDescription", <<>>)
BodyOf(b) == OrElse(b, "body", <<>>)
KeywordsOf(b) == OrElse(OrElse(b, "seoFields", DefaultSeoFields), "keywords", <<>>)

HasIssue(r, id) == \E i \in 1..Len(r.issues) : r.issues[i].id = id

HasIssueWith(r, id, sev) ==
  \E i \in 1..Len(r.issues) : r.issues[i].id = id /\ r.issues[i].severity = sev

\* C1: a title shorter than 10 characters scores 20 with issue title-short
\* (high), one longer than 70 scores 60 with issue title-long (medium), and
\* any other title, lengths 10 and 70 included, scores 100 with no title issue.
C1_TitleBands ==
  \A i \in 1..Len(results) :
    LET r == results[i]
        n == Len(TitleOf(blog))
    IN  /\ n < 10 =>
             /\ r.titleLengthScore = 20
             /\ HasIssueWith(r, "title-short", "high")
             /\ ~HasIssue(r, "title-long")
        /\ n > 70 =>
             /\ r.titleLengthScore = 60
             /\ HasIssueWith(r, "title-long", "medium")
             /\ ~HasIssue(r, "title-short")
        /\ (n >= 10 /\ n <= 70) =>
             /\ r.titleLengthScore = 100
             /\ ~HasIssue(r, "title-short")
             /\ ~HasIssue(r, "title-long")

C1_Witness ==
  /\ results # <<>>
  /\ Len(TitleOf(blog)) = 10
  /\ results[1].titleLengthScore = 100

\* C2: a short description shorter than 50 characters scores 40 with issue
\* desc-short (medium), one longer than 160 scores 80 with issue desc-long
\* (low), and any other, lengths 50 and 160 included, scores 100 with no
\* description issue.
C2_DescBands ==
  \A i \in 1..Len(results) :
    LET r == results[i]
        n == Len(DescOf(blog))
    IN  /\ n < 50 =>
             /\ r.shortDescriptionScore = 40
             /\ HasIssueWith(r, "desc-short", "medium")
             /\ ~HasIssue(r, "desc-long")
        /\ n > 160 =>
             /\ r.shortDescriptionScore = 80
             /\ HasIssueWith(r, "desc-long", "low")
             /\ ~HasIssue(r, "desc-short")
        /\ (n >= 50 /\ n <= 160) =>
             /\ r.shortDescriptionScore = 100
             /\ ~HasIssue(r, "desc-short")
             /\ ~HasIssue(r, "desc-long")

C2_Witness ==
  /\ results # <<>>
  /\ Len(DescOf(blog)) = 160
  /\ results[1].shortDescriptionScore = 100


ImgTagsOf(b) == matchImg(BodyOf(b))
CompliantOf(b) == SelectSeq(ImgTagsOf(b), HasAlt)

\* C3: imageAltCompleteness is 100 when the body has no image tag and
\* otherwise 100 * compliant / total rounded to the nearest integer, halves
\* up, where compliant counts the image tags with `alt=` and without `alt=""`.
C3_AltScoreRounded ==
  \A i \in 1..Len(results) :
    LET total == Len(ImgTagsOf(blog))
        compliant == Len(CompliantOf(blog))
    IN  results[i].imageAltCompleteness =
          IF total = 0 THEN 100
          ELSE (200 * compliant + total) \div (2 * total)

\* C4: the issue img-alt (high) is emitted exactly when imageAltCompleteness
\* is below 100, and its message is "<N> images missing alt text." with
\* N = total - compliant; two image tags without alt give score 0 and N = 2.
C4_ImgAltIssue ==
  \A i \in 1..Len(results) :
    LET r == results[i]
        total == Len(ImgTagsOf(blog))
        compliant == Len(CompliantOf(blog))
        expected == Issue("high",
                          numberToString(total - compliant)
                            \o " images missing alt text.",
                          "img-alt")
    IN  /\ HasIssue(r, "img-alt") <=> r.imageAltCompleteness < 100
        /\ \A j \in 1..Len(r.issues) :
             r.issues[j].id = "img-alt" => r.issues[j] = expected
        /\ BodyOf(blog) = ImgNoAlt \o ImgNoAlt =>
             /\ r.imageAltCompleteness = 0
             /\ \E j \in 1..Len(r.issues) :
                  r.issues[j] = Issue("high", "2 images missing alt text.", "img-alt")

C4_Witness ==
  /\ results # <<>>
  /\ BodyOf(blog) = ImgNoAlt \o ImgNoAlt
  /\ HasIssue(results[1], "img-alt")

\* C5: readabilityScore is 50 with issue word-count (high) when
\* estimatedWordCount is below 300, and 100 with no word-count issue from
\* 300 words on.
C5_Readability ==
  \A i \in 1..Len(results) :
    LET r == results[i]
    IN  /\ r.estimatedWordCount < 300 =>
             /\ r.readabilityScore = 50
             /\ HasIssueWith(r, "word-count", "high")
        /\ r.estimatedWordCount >= 300 =>
             /\ r.readabilityScore = 100
             /\ ~HasIssue(r, "word-count")

C5_Witness ==
  /\ results # <<>>
  /\ results[1].estimatedWordCount = 300
  /\ results[1].readabilityScore = 100


\* position k of s lies in a tag span: a '<' at or before k, no '>' between
\* it and k, and a '>' at or after k
InTagSpan(s, opens, k) ==
  /\ \E j \in k..Len(s) : s[j] = ">"
  /\ \E i \in opens : i <= k /\ \A m \in i..(k - 1) : s[m] # ">"

\* the number of maximal runs of characters that are neither whitespace nor
\* inside a tag span
TokenCount(s) ==
  LET opens == {i \in 1..Len(s) : s[i] = "<"}
      Plain(k) == ~IsSpace(s[k]) /\ ~InTagSpan(s, opens, k)
  IN  Cardinality({k \in 1..Len(s) : Plain(k) /\ (k = 1 \/ ~Plain(k - 1))})

\* C6: estimatedWordCount is the number of non-empty tokens left after every
\* tag span of the body is replaced by one space and the text is split on
\* whitespace runs; words separated only by a tag count separately, and an
\* empty body or a body of tags only counts 0.
C6_WordCount ==
  \A i \in 1..Len(results) :
    /\ results[i].estimatedWordCount = TokenCount(BodyOf(blog))
    /\ BodyOf(blog) = <<>> => results[i].estimatedWordCount = 0
    /\ BodyOf(blog) = <<"d","o","g">> \o <<"<","b",">">> \o <<"d","o","g">> => results[i].estimatedWordCount = 2
    /\ BodyOf(blog) = <<"<","b",">">> \o ImgNoAlt => results[i].estimatedWordCount = 0

C6_Witness ==
  /\ results # <<>>
  /\ BodyOf(blog) = <<"d","o","g">> \o <<"<","b",">">> \o <<"d","o","g">>
  /\ results[1].estimatedWordCount = 2


\* C7: with an empty or absent keyword list keywordPresenceScore is 50, the
\* issue no-keywords (low, "No focus keywords defined.") is emitted and the
\* issue keywords is not.
C7_NoKeywords ==
  \A i \in 1..Len(results) :
    LET r == results[i]
    IN  KeywordsOf(blog) = <<>> =>
          /\ r.keywordPresenceScore = 50
          /\ \E j \in 1..Len(r.issues) :
               r.issues[j] = Issue("low", "No focus keywords defined.", "no-keywords")
          /\ ~HasIssue(r, "keywords")

C7_Witness ==
  /\ results # <<>>
  /\ "seoFields" \notin DOMAIN blog
  /\ results[1].keywordPresenceScore = 50

\* C8: with a non-empty keyword list and missing = the keywords not found in
\* the tag-stripped text, in their order and casing: no missing keyword gives
\* 100 and no keyword issue; otherwise the score is max(0, 100 - 20 * |missing|),
\* below 100 and 0 from five missing keywords on, with exactly one issue
\* keywords (medium) whose message lists the missing keywords, comma-joined.
C8_MissingKeywords ==
  \A i \in 1..Len(results) :
    LET r == results[i]
        kws == KeywordsOf(blog)
        missing == missingKeywordsOf(kws, replaceTags(BodyOf(blog)))
        n == Len(missing)
    IN  kws # <<>> =>
          /\ ~HasIssue(r, "no-keywords")
          /\ n = 0 => r.keywordPresenceScore = 100 /\ ~HasIssue(r, "keywords")
          /\ n > 0 =>
               /\ r.keywordPresenceScore = (IF n >= 5 THEN 0 ELSE 100 - 20 * n)
               /\ r.keywordPresenceScore < 100
               /\ Cardinality({j \in 1..Len(r.issues) : r.issues[j].id = "keywords"}) = 1
               /\ \E j \in 1..Len(r.issues) :
                    r.issues[j] =
                      Issue("medium",
                            "Missing keywords in body: " \o join(missing, ", "),
                            "keywords")

C8_Witness ==
  /\ results # <<>>
  /\ Len(KeywordsOf(blog)) = 6
  /\ results[1].keywordPresenceScore = 0
  /\ HasIssueWith(results[1], "keywords", "medium")

\* the text of s outside tag spans, every tag span giving one space
PlainTextOf(s) ==
  LET n == Len(s)
      opens == {i \in 1..n : s[i] = "<"}
      SpanStart(k) ==
        /\ s[k] = "<"
        /\ \E j \in (k + 1)..n : s[j] = ">"
        /\ ~\E i \in opens : i < k /\ \A m \in i..(k - 1) : s[m] # ">"
      Kept(k) == SpanStart(k) \/ ~InTagSpan(s, opens, k)
      kept == SelectSeq([k \in 1..n |-> k], Kept)
  IN  [p \in 1..Len(kept) |-> IF SpanStart(kept[p]) THEN " " ELSE s[kept[p]]]

\* k occurs in text, letter case ignored
OccursIgnoringCase(text, k) ==
  \E off \in 0..(Len(text) - Len(k)) :
    \A j \in 1..Len(k) : LowerChar(text[off + j]) = LowerChar(k[j])

\* C9: a keyword is present exactly when its lower-cased form is a substring
\* of the lower-cased tag-stripped text: case is ignored, the match is not
\* whole-word ("cat" is present in "Category"), and text inside a tag only
\* does not make a keyword present.
C9_KeywordPresence ==
  \A i \in 1..Len(results) :
    LET r == results[i]
        kws == KeywordsOf(blog)
        text == PlainTextOf(BodyOf(blog))
        absent == {j \in 1..Len(kws) : ~OccursIgnoringCase(text, kws[j])}
    IN  kws # <<>> =>
          /\ r.keywordPresenceScore =
               (IF absent = {} THEN 100 ELSE Max(0, 100 - 20 * Cardinality(absent)))
          /\ (BodyOf(blog) = <<"C","a","t","e","g","o","r","y">> /\ kws = <<KwCat>>) =>
               r.keywordPresenceScore = 100
          /\ (BodyOf(blog) = ImgAltCat /\ kws = <<KwCat>>) =>
               r.keywordPresenceScore = 80

C9_Witness ==
  /\ results # <<>>
  /\ BodyOf(blog) = <<"C","a","t","e","g","o","r","y">>
  /\ KeywordsOf(blog) = <<KwCat>>
  /\ results[1].keywordPresenceScore = 100

SubScoreSum(r) ==
  r.titleLengthScore + r.shortDescriptionScore + r.imageAltCompleteness
  + r.readabilityScore + r.keywordPresenceScore

\* C10: overallSEOGrade follows the unrounded mean of the five sub-scores:
\* A iff mean >= 90, B iff 80 <= mean < 90, C iff 70 <= mean < 80,
\* D iff 60 <= mean < 70, F iff mean < 60 (the mean is the sum divided by 5,
\* so 89.8 is the sum 449 and grades B, and 59.8 is the sum 299 and grades F).
C10_Grade ==
  \A i \in 1..Len(results) :
    LET r == results[i]
        sum == SubScoreSum(r)
    IN  /\ r.overallSEOGrade = "A" <=> sum >= 5 * 90
        /\ r.overallSEOGrade = "B" <=> (sum >= 5 * 80 /\ sum < 5 * 90)
        /\ r.overallSEOGrade = "C" <=> (sum >= 5 * 70 /\ sum < 5 * 80)
        /\ r.overallSEOGrade = "D" <=> (sum >= 5 * 60 /\ sum < 5 * 70)
        /\ r.overallSEOGrade = "F" <=> sum < 5 * 60

C10_Witness ==
  /\ results # <<>>
  /\ SubScoreSum(results[1]) = 449
  /\ results[1].overallSEOGrade = "B"

IssueIds(r) == [j \in 1..Len(r.issues) |-> r.issues[j].id]

\* C11 as stated: the end-to-end scenario document scores title 100,
\* description 80 (desc-long), alt 100, readability 50 (word-count),
\* keywords 80 (keywords), hence the average 82 and the grade B.
C11_ScenarioAsStated ==
  \A i \in 1..Len(results) :
    LET r == results[i]
    IN  blog = ScenarioDoc =>
          /\ r.titleLengthScore = 100
          /\ r.shortDescriptionScore = 80 /\ HasIssue(r, "desc-long")
          /\ r.imageAltCompleteness = 100
          /\ r.readabilityScore = 50 /\ HasIssue(r, "word-count")
          /\ r.keywordPresenceScore = 80 /\ HasIssue(r, "keywords")
          /\ SubScoreSum(r) = 5 * 82
          /\ r.overallSEOGrade = "B"

\* C11 amended: the scenario title has 73 characters, so the document scores
\* title 60 (title-long), description 80 (desc-long), alt 100, readability 50
\* (word-count), keywords 80 (keywords), hence the average 74 and the grade C.
C11_Scenario ==
  \A i \in 1..Len(results) :
    LET r == results[i]
    IN  blog = ScenarioDoc =>
          /\ Len(blog.title) = 73 /\ Len(blog.shortDescription) = 165
          /\ r.titleLengthScore = 60
          /\ r.shortDescriptionScore = 80
          /\ r.imageAltCompleteness = 100
          /\ r.estimatedWordCount = 5
          /\ r.readabilityScore = 50
          /\ r.keywordPresenceScore = 80
          /\ IssueIds(r) = <<"title-long", "desc-long", "word-count", "keywords">>
          /\ SubScoreSum(r) = 5 * 74
          /\ r.overallSEOGrade = "C"

C11_Witness ==
  /\ results # <<>>
  /\ blog = ScenarioDoc
  /\ results[1].overallSEOGrade = "C"

\* C12 as stated: a document with fewer than 300 words never gets grade A.
C12_ShortNeverA ==
  \A i \in 1..Len(results) :
    results[i].estimatedWordCount < 300 => results[i].overallSEOGrade # "A"

\* C12 amended: a document with fewer than 300 words gets readabilityScore 50
\* and grade A only when its four other sub-scores are all 100 (a mean of
\* exactly 90); with any other sub-score below 100 its grade is not A.
C12_ShortAOnlyIfPerfect ==
  \A i \in 1..Len(results) :
    LET r == results[i]
        othersPerfect ==
          /\ r.titleLengthScore = 100
          /\ r.shortDescriptionScore = 100
          /\ r.imageAltCompleteness = 100
          /\ r.keywordPresenceScore = 100
    IN  r.estimatedWordCount < 300 =>
          /\ r.readabilityScore = 50
          /\ r.overallSEOGrade = "A" <=> othersPerfect
          /\ othersPerfect => SubScoreSum(r) = 5 * 90

C12_Witness ==
  /\ results # <<>>
  /\ results[1].estimatedWordCount < 300
  /\ results[1].overallSEOGrade = "A"

ResultFields ==
  {"titleLengthScore", "metaDescriptionScore", "keywordPresenceScore",
   "headingStructureQuality", "slugReadabilityScore", "imageAltCompleteness",
   "externalLinkCount", "internalLinkCount", "readabilityScore",
   "estimatedWordCount", "canonicalUrlCheck", "socialTagsScore",
   "shortDescriptionScore", "overallSEOGrade", "issues"}

Blank(rec, f) == f \notin DOMAIN rec \/ rec[f] = <<>>

\* C13: a document with absent or empty title, shortDescription, body,
\* seoFields or keywords is scored, never rejected: each such field counts as
\* the empty string or list, and the entirely empty document gets title 20,
\* description 40, alt 100, 0 words, readability 50, keywords 50, grade F and
\* the issues title-short, desc-short, word-count, no-keywords.
C13_AbsentFields ==
  /\ \A i \in 1..Len(results) :
       LET r == results[i]
       IN  /\ DOMAIN r = ResultFields
           /\ Blank(blog, "title") =>
                r.titleLengthScore = 20 /\ HasIssue(r, "title-short")
           /\ Blank(blog, "shortDescription") =>
                r.shortDescriptionScore = 40 /\ HasIssue(r, "desc-short")
           /\ Blank(blog, "body") =>
                /\ r.imageAltCompleteness = 100 /\ ~HasIssue(r, "img-alt")
                /\ r.estimatedWordCount = 0
                /\ r.readabilityScore = 50 /\ HasIssue(r, "word-count")
           /\ ("seoFields" \notin DOMAIN blog \/ Blank(blog.seoFields, "keywords")) =>
                r.keywordPresenceScore = 50 /\ HasIssue(r, "no-keywords")
           /\ blog = EmptyDoc =>
                /\ r.titleLengthScore = 20
                /\ r.shortDescriptionScore = 40
                /\ r.imageAltCompleteness = 100
                /\ r.estimatedWordCount = 0
                /\ r.readabilityScore = 50
                /\ r.keywordPresenceScore = 50
                /\ r.overallSEOGrade = "F"
                /\ IssueIds(r) =
                     <<"title-short", "desc-short", "word-count", "no-keywords">>

C13_Witness ==
  /\ results # <<>>
  /\ blog = EmptyDoc
  /\ results[1].overallSEOGrade = "F"

Done(c) == calls[c].pc = "done"

\* C14: two calls on the same document, whenever they are made and whatever
\* other calls ran before or between them, return results equal in every
\* field, the issues and their order included.
C14_Deterministic ==
  \A c1, c2 \in Calls :
    (Done(c1) /\ Done(c2) /\ docs[calls[c1].arg] = docs[calls[c2].arg]) =>
      /\ returned[c1] = returned[c2]
      /\ returned[c1].issues = returned[c2].issues

C14_Witness ==
  /\ Done(1) /\ Done(2)
  /\ calls[1].arg = 1 /\ calls[2].arg = 1
  /\ IssueIds(returned[1]) = <<"title-long", "desc-long", "word-count", "keywords">>
  /\ returned[2] = returned[1]

\* C15: no step of a call changes a document: title, shortDescription, body,
\* seoFields and its keywords keep the values they had before the call.
C15_InputUntouched == [][docs' = docs]_vars

C15_Witness ==
  /\ Done(1)
  /\ calls[1].arg = 3
  /\ docs[3].seoFields.keywords = <<KwDog, KwCat>>
  /\ HasIssue(returned[1], "keywords")

\* C16: under every interleaving a call returns the result of the same call
\* run alone, and calls in progress have distinct issue arrays and bindings.
C16_Reentrant ==
  /\ \A c \in Calls : Done(c) => returned[c] = calculateSEOScore(docs[calls[c].arg])
  /\ \A c1, c2 \in Calls :
       (c1 # c2 /\ ~At(c1, "idle") /\ ~At(c2, "idle")) =>
         /\ EnvOf(c1) # EnvOf(c2)
         /\ env[EnvOf(c1)].issues # env[EnvOf(c2)].issues

\* caller 2 entered first and is still between two evaluators when the call
\* of caller 1, on another document, has returned
C16_Witness ==
  /\ Done(1)
  /\ At(2, "keywords")
  /\ calls[1].arg # calls[2].arg
  /\ env[EnvOf(2)].issues < env[EnvOf(1)].issues
  /\ returned[1] = calculateSEOScore(docs[calls[1].arg])

\* C17: in every result metaDescriptionScore equals shortDescriptionScore.
C17_MetaEqualsShort ==
  \A i \in 1..Len(results) :
    results[i].metaDescriptionScore = results[i].shortDescriptionScore

C17_Witness ==
  /\ results # <<>>
  /\ results[1].shortDescriptionScore = 40
  /\ results[1].metaDescriptionScore = 40

\* C18: the five sub-scores are integers between 0 and 100, estimatedWordCount
\* is a non-negative integer and overallSEOGrade is one of A, B, C, D, F.
C18_Ranges ==
  \A i \in 1..Len(results) :
    LET r == results[i]
    IN  /\ r.titleLengthScore \in 0..100
        /\ r.shortDescriptionScore \in 0..100
        /\ r.imageAltCompleteness \in 0..100
        /\ r.readabilityScore \in 0..100
        /\ r.keywordPresenceScore \in 0..100
        /\ r.estimatedWordCount \in Nat
        /\ r.overallSEOGrade \in {"A", "B", "C", "D", "F"}

C18_Witness ==
  /\ results # <<>>
  /\ Len(KeywordsOf(blog)) = MaxKeywords
  /\ results[1].keywordPresenceScore = 0
  /\ results[1].imageAltCompleteness = 100

\* the evaluator an issue id belongs to, in evaluation order
EvaluatorOf(id) ==
  CASE id \in {"title-short", "title-long"} -> 1
    [] id \in {"desc-short", "desc-long"} -> 2
    [] id = "img-alt" -> 3
    [] id = "word-count" -> 4
    [] id \in {"keywords", "no-keywords"} -> 5
    [] OTHER -> 0

\* C19: the issues are in evaluation order with at most one issue per
\* evaluator (title, description, img-alt, word-count, keyword), so the issue
\* ids are pairwise distinct and there are at most five issues.
C19_IssueOrder ==
  \A i \in 1..Len(results) :
    LET ids == IssueIds(results[i])
    IN  /\ \A j \in 1..Len(ids) : EvaluatorOf(ids[j]) \in 1..5
        /\ \A j \in 1..(Len(ids) - 1) : EvaluatorOf(ids[j]) < EvaluatorOf(ids[j + 1])
        /\ \A j, k \in 1..Len(ids) : j # k => ids[j] # ids[k]
        /\ Len(ids) <= 5

C19_Witness ==
  /\ results # <<>>
  /\ Len(results[1].issues) = 5

\* C20: each evaluator's issue is present exactly when its sub-score is below
\* 100, so the issues list is empty exactly when all five sub-scores are 100.
C20_IssuesIffBelow100 ==
  \A i \in 1..Len(results) :
    LET r == results[i]
        Has(e) == \E j \in 1..Len(r.issues) : EvaluatorOf(r.issues[j].id) = e
    IN  /\ Has(1) <=> r.titleLengthScore < 100
        /\ Has(2) <=> r.shortDescriptionScore < 100
        /\ Has(3) <=> r.imageAltCompleteness < 100
        /\ Has(4) <=> r.readabilityScore < 100
        /\ Has(5) <=> r.keywordPresenceScore < 100
        /\ r.issues = <<>> <=> SubScoreSum(r) = 500

C20_Witness ==
  /\ results # <<>>
  /\ results[1].issues = <<>>
  /\ SubScoreSum(results[1]) = 500

CanonicalUrlOf(b) ==
  OrElse(OrElse(b, "seoFields", DefaultSeoFields), "canonicalUrl", <<>>)

\* C21: headingStructureQuality, slugReadabilityScore and socialTagsScore are
\* always 100, externalLinkCount and internalLinkCount always 0,
\* canonicalUrlCheck is true exactly when the canonical URL is non-empty, and
\* the grade follows the sum of exactly the five title, description, alt,
\* readability and keyword scores divided by 5.
C21_Placeholders ==
  \A i \in 1..Len(results) :
    LET r == results[i]
        sum == SubScoreSum(r)
    IN  /\ r.headingStructureQuality = 100
        /\ r.slugReadabilityScore = 100
        /\ r.socialTagsScore = 100
        /\ r.externalLinkCount = 0
        /\ r.internalLinkCount = 0
        /\ r.canonicalUrlCheck = (CanonicalUrlOf(blog) # <<>>)
        /\ r.overallSEOGrade =
             (IF sum >= 450 THEN "A" ELSE IF sum >= 400 THEN "B"
              ELSE IF sum >= 350 THEN "C" ELSE IF sum >= 300 THEN "D" ELSE "F")

\* a result whose five scores average below 60 although the placeholders,
\* had they been counted, would lift the mean to 70
C21_Witness ==
  /\ results # <<>>
  /\ results[1].canonicalUrlCheck
  /\ SubScoreSum(results[1]) = 260
  /\ results[1].overallSEOGrade = "F"

OnlyImageIs(b, img) == BodyOf(b) = img

\* C22 as stated: a body whose only image tag has an empty alt attribute
\* written single-quoted or with whitespace around the equals sign gets
\* imageAltCompleteness 100 and no img-alt issue.
C22_VariantsCompliant ==
  \A i \in 1..Len(results) :
    (OnlyImageIs(blog, ImgAltSingleQuoted) \/ OnlyImageIs(blog, ImgAltSpacedEquals)) =>
      /\ results[i].imageAltCompleteness = 100
      /\ ~HasIssue(results[i], "img-alt")

\* C22 amended: the single-quoted empty alt, and the empty alt with
\* whitespace only after the equals sign, count as compliant (score 100, no
\* img-alt issue); with whitespace before the equals sign the tag does not
\* contain `alt=` at all and counts as missing its alt text (score 0 and the
\* img-alt issue for one image).
C22_QuotedAlt ==
  \A i \in 1..Len(results) :
    LET r == results[i]
    IN  /\ (OnlyImageIs(blog, ImgAltSingleQuoted) \/ OnlyImageIs(blog, ImgAltSpaceAfter)) =>
             /\ r.imageAltCompleteness = 100
             /\ ~HasIssue(r, "img-alt")
        /\ (OnlyImageIs(blog, ImgAltSpacedEquals) \/ OnlyImageIs(blog, ImgAltSpaceBefore)) =>
             /\ r.imageAltCompleteness = 0
             /\ \E j \in 1..Len(r.issues) :
                  /\ r.issues[j].id = "img-alt"
                  /\ r.issues[j].message = "1 images missing alt text."
        /\ \A img \in AltVariants :
             BodyOf(blog) = ImgAltCat \o img =>
               r.imageAltCompleteness =
                 (IF img \in {ImgAltSingleQuoted, ImgAltSpaceAfter, ImgAltCat}
                  THEN 100 ELSE 50)

C22_Witness ==
  /\ results # <<>>
  /\ OnlyImageIs(blog, ImgAltSingleQuoted)
  /\ results[1].imageAltCompleteness = 100

\* C26: whenever the body has at least one image tag that is not compliant,
\* imageAltCompleteness is below 100 and the img-alt issue is emitted,
\* whatever the number of image tags (200 and more included).
C26_NonCompliantFlagged ==
  \A i \in 1..Len(results) :
    Len(CompliantOf(blog)) < Len(ImgTagsOf(blog)) =>
      /\ results[i].imageAltCompleteness < 100
      /\ HasIssue(results[i], "img-alt")

Restrict(rec, F) == [f \in (DOMAIN rec) \cap F |-> rec[f]]

\* the document reduced to title, shortDescription, body, keywords and
\* canonical URL
CoreOf(b) ==
  LET top == Restrict(b, {"title", "shortDescription", "body", "seoFields"})
  IN  IF "seoFields" \in DOMAIN b
      THEN [top EXCEPT !.seoFields = Restrict(@, {"keywords", "canonicalUrl"})]
      ELSE top

\* the document with another canonical URL
WithCanonical(b, c) ==
  [b EXCEPT !.seoFields = [canonicalUrl |-> c] @@ @]

\* C27: the result is the result of the document reduced to title,
\* shortDescription, body, keywords and canonical URL, whatever id, slug,
\* category, tags, featuredImage, status, publishedAt and the other SEO fields
\* are; and another canonical URL changes canonicalUrlCheck only.
C27_OnlyFiveFields ==
  \A i \in 1..Len(results) :
    LET r == results[i]
    IN  /\ r = calculateSEOScore(CoreOf(blog))
        /\ "seoFields" \in DOMAIN blog =>
             \A c \in {<<>>, <<"u">>} :
               [r EXCEPT !.canonicalUrlCheck = FALSE] =
                 [calculateSEOScore(WithCanonical(blog, c))
                    EXCEPT !.canonicalUrlCheck = FALSE]

C27_Witness ==
  /\ results # <<>>
  /\ blog \in RichDocs
  /\ blog.slug = <<"s">> /\ blog.status = "PUBLISHED"
  /\ blog.seoFields.metaTitle = KwBird
  /\ blog.title = GoodTitle
  /\ results[1].titleLengthScore = 100
  /\ results[1].canonicalUrlCheck

AllBlank(ks) == ks # <<>> /\ \A j \in 1..Len(ks) : ks[j] = <<>>

\* C28: a keyword list that is non-empty but holds only empty strings, as the
\* cleared Keywords input stores it, is not treated as empty: the result has
\* keywordPresenceScore 100 and neither the no-keywords nor the keywords
\* issue.
C28_BlankKeywords ==
  /\ keywordsFromInput(<<>>) = << <<>> >>
  /\ \A i \in 1..Len(results) :
       AllBlank(KeywordsOf(blog)) =>
         /\ results[i].keywordPresenceScore = 100
         /\ ~HasIssue(results[i], "no-keywords")
         /\ ~HasIssue(results[i], "keywords")

C28_Witness ==
  /\ results # <<>>
  /\ KeywordsOf(blog) = keywordsFromInput(<<>>)
  /\ AllBlank(KeywordsOf(blog))
  /\ BodyOf(blog) = <<>>
  /\ results[1].keywordPresenceScore = 100

\* C25: a resolved processImage has width at most maxWidth; an image wider
\* than maxWidth gets width maxWidth and height round(height * maxWidth /
\* width), halves up; an image no wider than maxWidth keeps its size.
C25_WidthCapped ==
  promise.state = "resolved" =>
    LET out == promise.value
    IN  /\ out.width <= maxWidth
        /\ image.width > maxWidth =>
             /\ out.width = maxWidth
             /\ out.height =
                  (2 * image.height * maxWidth + image.width) \div (2 * image.width)
        /\ image.width <= maxWidth =>
             out.width = image.width /\ out.height = image.height

\* 4000 x 3199 at the default limit: 1279.6 rounds up to 1280
C25_Witness ==
  /\ promise.state = "resolved"
  /\ maxWidth = DefaultMaxWidth
  /\ image = [width |-> 4000, height |-> 3199]
  /\ promise.value.width = 1600
  /\ promise.value.height = 1280

\* C29: currentPage stays within 1..max(1, totalPages), so the page shown
\* has at least one post whenever the filtered list is non-empty.
C29_PageInRange ==
  ~isLoading =>
    /\ currentPage \in 1..Max(1, totalPages)
    /\ filteredBlogs # <<>> => paginatedBlogs # <<>>


\* C23: whenever the effects of the last render have run, the audit displayed
\* is calculateSEOScore of the current blog, whatever edits of title, body,
\* short description, SEO fields, slug, category, tags and featured image and
\* whatever replacement of initialData came before.
C23_AuditInStep ==
  rendered = blog => seoAudit = calculateSEOScore(blog)

C23_Witness ==
  /\ edits >= 2
  /\ rendered = blog
  /\ blog.title = TitleTyped
  /\ blog.seoFields.keywords = <<KwCat, KwBird>>
  /\ seoAudit = calculateSEOScore(blog)
  /\ seoAudit # calculateSEOScore(INITIAL_STATE)
  /\ seoAudit.keywordPresenceScore < 100

\* C24: once handlePublish has posted, the audit of the blog published is in
\* the audit-log record of the payload and in the body of the request that
\* storeBlog posted.
C24_AuditEmbedded ==
  publish.state # "idle" =>
    LET audit == calculateSEOScore(publish.payload.blog)
    IN  /\ publish.payload.seoAudit = audit
        /\ publish.payload.auditLog.seoAudit = audit
        /\ "seoAudit" \in DOMAIN request.body.json
        /\ request.body.json.seoAudit = audit
        /\ "auditLog" \in DOMAIN request.body.json
        /\ request.body.json.auditLog.seoAudit = audit

\* C30: after a publish has succeeded and as long as the blog has not been
\* changed since, localStorage holds no draft_blog.
C30_DraftStaysAbsent ==
  (publish.state = "succeeded" /\ publish.edits = edits) =>
    localStorage.draft_blog = Null
====
